---- MODULE Spec2Model ----
(* Sniper Race (src/sniper-race-cpsc-581/src/App.js): the game state held by *)
(* the App component and its two event handlers, handleMove and handleShoot. *)
(* Arrays are JavaScript arrays: indices are 0-based, a failed findIndex is  *)
(* -1.  Labels '1'..'N' are modelled by the integers 1..N, the null winner   *)
(* by NoWinner, and a player's gif by its index in the gifs array.           *)
EXTENDS Integers, Sequences, FiniteSets, TLC

(* ------------------------------ bounds ----------------------------------- *)
\* number of players behind the human-controlled ones
NumNPC == 1
\* within one call of shuffleArray Math.random() stays at one of the values
\* k / ShuffleDenom, k in 0..ShuffleDenom-1
ShuffleDenom == 2

\* handleMove is also called with rowMove down to -MaxDelta and with
\* gridSize + MaxDelta
MaxDelta == 1

(* --------------------------- configuration ------------------------------- *)
HUMAN_PLAYERS == 3
NUM_PLAYERS == HUMAN_PLAYERS + NumNPC
gridSize == NUM_PLAYERS
NUM_POWERUPS == 3
\* the literal in the test `i > 2` of the loop over the other players
LastHumanIndex == 2
\* useState(null) for winner
NoWinner == 0

VARIABLES players, activePlayer, winner, powerUps, hasPowerUp, last
vars == <<players, activePlayer, winner, powerUps, hasPowerUp, last>>

(* --------------------------- array helpers ------------------------------- *)
At(array, i) == array[i + 1]
SetAt(array, i, v) == [array EXCEPT ![i + 1] = v]
Indices(array) == 0 .. (Len(array) - 1)
\* the values of Math.floor(Math.random() * n)
randomInt(n) == 0 .. (n - 1)
ShuffleDraws == 0 .. (ShuffleDenom - 1)
\* Math.floor(Math.random() * n) for the draw k / ShuffleDenom
randomIndex(k, n) == (k * n) \div ShuffleDenom
Max(a, b) == IF a >= b THEN a ELSE b
Min(a, b) == IF a <= b THEN a ELSE b

(* ------------------------------ helpers ---------------------------------- *)
\* the random index is always 0: every move is one row
getRandomMove_AlwaysWalk(k) == [row |-> 1, col |-> 0]

\* k is the value of Math.floor(Math.random() * moves.length)
getRandomMove(k) == At(<<[row |-> 1, col |-> 0], [row |-> 2, col |-> 0]>>, k)

\* the swap writes array[i] only: array[j] keeps its value
RECURSIVE shuffleFrom_BadSwap(_, _, _)
shuffleFrom_BadSwap(array, i, k) ==
  IF i <= 0 THEN array
  ELSE LET j == randomIndex(k, i + 1)
       IN shuffleFrom_BadSwap(SetAt(array, i, At(array, j)), i - 1, k)

RECURSIVE shuffleFrom(_, _, _)
shuffleFrom(array, i, k) ==
  IF i <= 0 THEN array
  ELSE LET j == randomIndex(k, i + 1)
           swapped == SetAt(SetAt(array, i, At(array, j)), j, At(array, i))
       IN shuffleFrom(swapped, i - 1, k)

\* every draw of one call is the same value k / ShuffleDenom
shuffleArray(array, k) == shuffleFrom(array, Len(array) - 1, k)

generateInitialPlayerData(kPos, kLab) ==
  LET positions == shuffleArray([i \in 1 .. gridSize |-> i - 1], kPos)
      labels == shuffleArray([i \in 1 .. NUM_PLAYERS |-> i], kLab)
  IN [i \in 1 .. NUM_PLAYERS |->
        [position |-> [row |-> gridSize - 1, col |-> positions[i]],
         label |-> labels[i],
         gif |-> i]]

\* the index is drawn among all players
initialActivePlayer_AnyPlayer == randomInt(NUM_PLAYERS)

\* the values of Math.floor(Math.random() * HUMAN_PLAYERS)
initialActivePlayer == randomInt(HUMAN_PLAYERS)

\* the row is clamped at 1
adjustForBorders_MinOne(row, col) ==
  [row |-> Max(1, row), col |-> Max(0, Min(gridSize - 1, col))]

\* the row is not clamped at the top border
adjustForBorders_NoClamp(row, col) ==
  [row |-> row, col |-> Max(0, Min(gridSize - 1, col))]

adjustForBorders(row, col) ==
  [row |-> Max(0, row), col |-> Max(0, Min(gridSize - 1, col))]

\* row and column are exchanged: the column is fixed, the row is drawn
RECURSIVE powerUpLoop_Transposed(_, _)
powerUpLoop_Transposed(acc, ks) ==
  IF Len(acc) >= NUM_POWERUPS \/ ks = <<>> THEN acc
  ELSE LET row == Head(ks)
           col == gridSize \div 2
       IN IF \E n \in 1 .. Len(acc) : acc[n].row = row /\ acc[n].col = col
          THEN powerUpLoop_Transposed(acc, Tail(ks))
          ELSE powerUpLoop_Transposed(Append(acc, [row |-> row, col |-> col]), Tail(ks))

\* the while loop of initialPowerUps; ks are the values drawn for col
RECURSIVE powerUpLoop(_, _)
powerUpLoop(acc, ks) ==
  IF Len(acc) >= NUM_POWERUPS \/ ks = <<>> THEN acc
  ELSE LET row == gridSize \div 2
           col == Head(ks)
       IN IF \E n \in 1 .. Len(acc) : acc[n].row = row /\ acc[n].col = col
          THEN powerUpLoop(acc, Tail(ks))
          ELSE powerUpLoop(Append(acc, [row |-> row, col |-> col]), Tail(ks))

\* the draws of the runs of the loop that reject at most one column and draw
\* the columns from left to right
PowerUpDraws ==
  {ks \in [1 .. (NUM_POWERUPS + 1) -> randomInt(gridSize)] :
     \A i, j \in 1 .. (NUM_POWERUPS + 1) : i <= j => ks[i] <= ks[j]}
initialPowerUps(ks) == powerUpLoop(<<>>, ks)

(* ------------------------------ handleMove ------------------------------- *)
ValidIndex(array, i) == i \in Indices(array)

\* row and column are compared crosswise
findPowerUp_Swapped(pus, row, col) ==
  LET hits == {n \in Indices(pus) : At(pus, n).row = col /\ At(pus, n).col = row}
  IN IF hits = {} THEN -1 ELSE CHOOSE n \in hits : \A m \in hits : n <= m

\* powerUps.findIndex((p) => p.row === row && p.col === col)
findPowerUp(pus, row, col) ==
  LET hits == {n \in Indices(pus) : At(pus, n).row = row /\ At(pus, n).col = col}
  IN IF hits = {} THEN -1 ELSE CHOOSE n \in hits : \A m \in hits : n <= m

\* powerUps.splice(0, 1): the first power-up goes, whichever was found
splice_First(pus, index) == Tail(pus)

\* powerUps.splice(index, 1)
splice(pus, index) ==
  [n \in 1 .. (Len(pus) - 1) |-> IF n <= index THEN pus[n] ELSE pus[n + 1]]

\* the win test is row < 0
reachedTop_Negative(row) == row < 0

reachedTop(row) == row = 0

\* the test is i >= 2: the last human-controlled index counts as computer-controlled
isComputerControlled_FromTwo(i, active) == i # active /\ i >= LastHumanIndex

isComputerControlled(i, active) == i # active /\ i > LastHumanIndex

\* the row of the other players is not clamped
moveOthers_NoClamp(ps, active, ks) ==
  [n \in 1 .. Len(ps) |->
     IF isComputerControlled(n - 1, active)
     THEN [ps[n] EXCEPT !.position.row = @ - getRandomMove(ks[n - 1]).row]
     ELSE ps[n]]

\* the loop over updatedPlayers; ks gives the draw of getRandomMove for each index
moveOthers(ps, active, ks) ==
  [n \in 1 .. Len(ps) |->
     IF isComputerControlled(n - 1, active)
     THEN [ps[n] EXCEPT !.position.row = Max(0, @ - getRandomMove(ks[n - 1]).row)]
     ELSE ps[n]]

handleMove(st, rowMove, ks) ==
  IF st.winner # NoWinner THEN st
  ELSE IF ~ValidIndex(st.players, st.activePlayer) THEN st  \* TypeError: state is left as it was
  ELSE LET currentPlayer == At(st.players, st.activePlayer)
           newRow == currentPlayer.position.row - rowMove
           newCol == currentPlayer.position.col
           pos == adjustForBorders(newRow, newCol)
           updatedPlayers == SetAt(st.players, st.activePlayer,
                                   [currentPlayer EXCEPT !.position = pos])
       IN IF reachedTop(pos.row)
          THEN [st EXCEPT !.players = updatedPlayers, !.winner = currentPlayer.label]
          ELSE LET powerUpIndex == findPowerUp(st.powerUps, pos.row, pos.col)
               IN [st EXCEPT
                     !.players = moveOthers(updatedPlayers, st.activePlayer, ks),
                     !.powerUps = IF powerUpIndex # -1 THEN splice(@, powerUpIndex) ELSE @,
                     !.hasPowerUp = IF powerUpIndex # -1 THEN TRUE ELSE @]

(* ------------------------------ handleShoot ------------------------------ *)
\* players.findIndex((p) => p.label === targetPlayerLabel)
findPlayer(ps, label) ==
  LET hits == {n \in Indices(ps) : At(ps, n).label = label}
  IN IF hits = {} THEN -1 ELSE CHOOSE n \in hits : \A m \in hits : n <= m

\* the label is taken for a position in the roster
filterPlayers_ByPosition(ps, label) ==
  IF label \in 1 .. Len(ps)
  THEN [n \in 1 .. (Len(ps) - 1) |-> IF n < label THEN ps[n] ELSE ps[n + 1]]
  ELSE ps

\* players.filter((player) => player.label !== targetPlayerLabel)
filterPlayers(ps, label) == SelectSeq(ps, LAMBDA p : p.label # label)

\* the active index is not shifted when a player before it goes
newActivePlayer_NoDecrement(targetIndex, active, length) ==
  IF targetIndex = length - 1 THEN 0 ELSE active

\* the active index is not reset when the last player goes
newActivePlayer_NoWrap(targetIndex, active, length) ==
  IF targetIndex < active THEN active - 1 ELSE active

newActivePlayer(targetIndex, active, length) ==
  IF targetIndex < active THEN active - 1
  ELSE IF targetIndex = length - 1 THEN 0
  ELSE active

\* setHasPowerUp(false) is missing
handleShoot_KeepsPowerUp(st, targetPlayerLabel) ==
  LET targetIndex == findPlayer(st.players, targetPlayerLabel)
  IN [st EXCEPT
        !.players = filterPlayers(@, targetPlayerLabel),
        !.activePlayer = newActivePlayer(targetIndex, @, Len(st.players))]

handleShoot(st, targetPlayerLabel) ==
  LET targetIndex == findPlayer(st.players, targetPlayerLabel)
  IN [st EXCEPT
        !.players = filterPlayers(@, targetPlayerLabel),
        !.activePlayer = newActivePlayer(targetIndex, @, Len(st.players)),
        !.hasPowerUp = FALSE]

(* ------------------------------- the state ------------------------------- *)
State ==
  [players |-> players, activePlayer |-> activePlayer, winner |-> winner,
   powerUps |-> powerUps, hasPowerUp |-> hasPowerUp]

Becomes(st, op, arg) ==
  /\ players' = st.players
  /\ activePlayer' = st.activePlayer
  /\ winner' = st.winner
  /\ powerUps' = st.powerUps
  /\ hasPowerUp' = st.hasPowerUp
  /\ last' = [op |-> op, arg |-> arg, pre |-> State]

Labels == 1 .. NUM_PLAYERS
\* with one label that no player ever has
AnyLabels == 1 .. (NUM_PLAYERS + 1)
RowMoves == {1, 2}

Init ==
  \E kPos \in ShuffleDraws, kLab \in ShuffleDraws, kPow \in PowerUpDraws :
    /\ Len(initialPowerUps(kPow)) = NUM_POWERUPS
    /\ players = generateInitialPlayerData(kPos, kLab)
    /\ activePlayer \in initialActivePlayer
    /\ winner = NoWinner
    /\ powerUps = initialPowerUps(kPow)
    /\ hasPowerUp = FALSE
    /\ last = [op |-> "init", arg |-> 0,
               pre |-> [players |-> players, activePlayer |-> activePlayer,
                        winner |-> winner, powerUps |-> powerUps,
                        hasPowerUp |-> hasPowerUp]]

(* the handlers called in any order and with any label, shoot under the      *)
(* precondition the controls give it: a power-up is held                    *)
Move(rowMove) ==
  \E ks \in [{i \in Indices(players) : isComputerControlled(i, activePlayer)} -> randomInt(2)] :
    Becomes(handleMove(State, rowMove, ks), "move", rowMove)

Shoot(label) ==
  /\ hasPowerUp
  /\ Becomes(handleShoot(State, label), "shoot", label)

Next == (\E d \in RowMoves : Move(d)) \/ (\E l \in AnyLabels : Shoot(l))

Spec == Init /\ [][Next]_vars

(* the handlers as the rendered controls call them: the buttons and the     *)
(* select exist only while there is no winner, the select only while        *)
(* hasPowerUp, and its options are the labels of the other players          *)
ClickMove(rowMove) ==
  /\ winner = NoWinner
  /\ Move(rowMove)

SelectTarget(label) ==
  /\ winner = NoWinner
  /\ hasPowerUp
  /\ \E n \in Indices(players) : At(players, n).label = label
  /\ label # At(players, activePlayer).label
  /\ Becomes(handleShoot(State, label), "shoot", label)

NextUI == (\E d \in RowMoves : ClickMove(d)) \/ (\E l \in Labels : SelectTarget(l))

SpecUI == Init /\ [][NextUI]_vars

(* move kept being clicked while the controls are shown *)
MoveClicked == \E d \in RowMoves : ClickMove(d)

SpecUIFair == SpecUI /\ WF_vars(MoveClicked)

(* handleMove called with any rowMove, the doc comment's negative values    *)
(* included, as long as the active player stays within MaxDelta rows of the *)
(* board                                                                    *)
WideRowMoves == ((-MaxDelta) .. (-1)) \cup RowMoves \cup {gridSize + MaxDelta}

MoveBy(rowMove) ==
  /\ ValidIndex(players, activePlayer)
  /\ At(players, activePlayer).position.row - rowMove <= gridSize - 1 + MaxDelta
  /\ Move(rowMove)

NextWide == \E d \in WideRowMoves : MoveBy(d)

SpecWide == Init /\ [][NextWide]_vars

(* ------------------------------- properties ------------------------------ *)
\* the state the last call started from, and what it was called with
pre == last.pre
preActive == pre.activePlayer
preValid == ValidIndex(pre.players, preActive)
\* the index of the shot label in the roster the shot started from, or -1
shotIndex == findPlayer(pre.players, last.arg)
\* array without the element at 0-based index t
WithoutIndex(array, t) ==
  [n \in 1 .. (Len(array) - 1) |-> IF n <= t THEN array[n] ELSE array[n + 1]]
CellsOf(pus) == {pus[n] : n \in 1 .. Len(pus)}
\* where the active player of the last move lands
landing ==
  [row |-> Max(0, At(pre.players, preActive).position.row - last.arg),
   col |-> At(pre.players, preActive).position.col]
ranMove == last.op = "move" /\ pre.winner = NoWinner /\ preValid

\* C1: once a winner is set, a later move or shoot changes nothing.
C1_FrozenAfterWinner ==
  pre.winner # NoWinner => State = pre

\* C2: while there is no winner, activePlayer is a roster index below
\* HUMAN_PLAYERS and the player there started in the first HUMAN_PLAYERS
\* roster positions.
C2_ActiveIsHuman ==
  winner = NoWinner =>
    /\ ValidIndex(players, activePlayer)
    /\ activePlayer < HUMAN_PLAYERS
    /\ At(players, activePlayer).gif <= HUMAN_PLAYERS

\* a shot at the last player has wrapped activePlayer to 0, where the player
\* that started at index 0 no longer is
C2_Witness ==
  /\ winner = NoWinner
  /\ last.op = "shoot"
  /\ preActive > 0
  /\ activePlayer = 0
  /\ At(players, 0).gif # 1

\* C3: shoot with a label no roster player has, or with the active player's
\* own label, changes nothing.
C3_BadLabelNoOp ==
  (/\ last.op = "shoot"
   /\ \/ shotIndex = -1
      \/ shotIndex = preActive)
  => State = pre

\* C4: if any roster player is at row 0 then winner is set and is the label
\* of a roster player at row 0.
C4_RowZeroEndsGame ==
  (\E n \in Indices(players) : At(players, n).position.row = 0) =>
    /\ winner # NoWinner
    /\ \E n \in Indices(players) :
         At(players, n).label = winner /\ At(players, n).position.row = 0

\* C5: shoot with the label of a roster player other than the active one
\* leaves a roster one shorter, without that label, the others in their order
\* with their labels and positions.
C5_ShootRemovesTarget ==
  (last.op = "shoot" /\ shotIndex # -1 /\ shotIndex # preActive) =>
    /\ Len(players) = Len(pre.players) - 1
    /\ \A n \in Indices(players) : At(players, n).label # last.arg
    /\ players = WithoutIndex(pre.players, shotIndex)

\* a player that is neither first nor last has been shot
C5_Witness ==
  /\ last.op = "shoot"
  /\ shotIndex # preActive
  /\ shotIndex > 0
  /\ shotIndex < Len(pre.players) - 1
  /\ Len(players) = Len(pre.players) - 1

\* C6: with t the target's index and a the active index before the shot,
\* t < a gives a-1, t last (and t > a) gives 0, t > a and not last gives a.
C6_ActiveIndexRule ==
  (last.op = "shoot" /\ shotIndex # -1) =>
    /\ shotIndex < preActive => activePlayer = preActive - 1
    /\ (shotIndex > preActive /\ shotIndex = Len(pre.players) - 1) => activePlayer = 0
    /\ (shotIndex > preActive /\ shotIndex # Len(pre.players) - 1) => activePlayer = preActive

\* a shot before the active index has moved it down by one
C6_Witness ==
  /\ last.op = "shoot"
  /\ shotIndex # -1
  /\ shotIndex < preActive
  /\ preValid
  /\ activePlayer = preActive - 1

\* C7: after a move made while there is no winner the active player's row is
\* max(0, oldRow - rowDelta) and its column is the old one.
C7_MoveActiveRow ==
  ranMove =>
    /\ activePlayer = preActive
    /\ At(players, activePlayer).position.row =
         Max(0, At(pre.players, preActive).position.row - last.arg)
    /\ At(players, activePlayer).position.col = At(pre.players, preActive).position.col

\* a move by 2 from row 1 has been clamped to row 0
C7_Witness ==
  /\ ranMove
  /\ At(pre.players, preActive).position.row - last.arg < 0
  /\ At(players, activePlayer).position.row = 0

\* C8: a move that lands the active player on row 0 sets winner to its label
\* and leaves powerUps, hasPowerUp and every other player as they were.
C8_WinOnly ==
  (ranMove /\ landing.row = 0) =>
    /\ winner = At(pre.players, preActive).label
    /\ powerUps = pre.powerUps
    /\ hasPowerUp = pre.hasPowerUp
    /\ activePlayer = preActive
    /\ Len(players) = Len(pre.players)
    /\ \A n \in Indices(players) : n # preActive => At(players, n) = At(pre.players, n)

\* the winning move was made while a computer-controlled player was still on
\* its way and a power-up was held
C8_Witness ==
  /\ ranMove
  /\ landing.row = 0
  /\ winner # NoWinner
  /\ hasPowerUp
  /\ \E n \in Indices(players) :
       isComputerControlled(n, activePlayer) /\ At(players, n).position.row > 0

\* C9: a non-winning move onto a power-up sets hasPowerUp and removes exactly
\* that power-up; no call ever adds a power-up.
C9_PickUp ==
  /\ (ranMove /\ landing.row # 0 /\ landing \in CellsOf(pre.powerUps)) =>
       /\ hasPowerUp
       /\ CellsOf(powerUps) = CellsOf(pre.powerUps) \ {landing}
       /\ Len(powerUps) = Len(pre.powerUps) - 1
  /\ CellsOf(powerUps) \subseteq CellsOf(pre.powerUps)
  /\ Len(powerUps) <= Len(pre.powerUps)

\* a power-up that was not the first of the array has been picked up
C9_Witness ==
  /\ ranMove
  /\ landing \in CellsOf(pre.powerUps)
  /\ findPowerUp(pre.powerUps, landing.row, landing.col) > 0
  /\ hasPowerUp
  /\ Len(powerUps) = Len(pre.powerUps) - 1

\* C10 as stated: after a completed move no remaining power-up is on the cell
\* of any roster player.
C10_NoPowerUpUnderAnyPlayer ==
  ranMove =>
    \A n \in Indices(players) : At(players, n).position \notin CellsOf(powerUps)

\* C10: after a move made while there is no winner no remaining power-up is
\* on the cell of the active player.
C10_NoPowerUpUnderActive ==
  ranMove => At(players, activePlayer).position \notin CellsOf(powerUps)

\* the active player has just landed on a cell that held a power-up
C10_Witness ==
  /\ ranMove
  /\ landing \in CellsOf(pre.powerUps)
  /\ At(players, activePlayer).position = landing
  /\ landing \notin CellsOf(powerUps)

\* C11: shoot leaves hasPowerUp false, and the number of eliminated players
\* never exceeds the number of power-ups collected.
C11_OneShotPerPowerUp ==
  /\ last.op = "shoot" => ~hasPowerUp
  /\ NUM_PLAYERS - Len(players) <= NUM_POWERUPS - Len(powerUps)

\* a second player has just been eliminated
C11_Witness ==
  /\ last.op = "shoot"
  /\ Len(pre.players) = NUM_PLAYERS - 1
  /\ Len(players) = NUM_PLAYERS - 2
  /\ pre.hasPowerUp
  /\ ~hasPowerUp

\* C12: move changes neither activePlayer nor the roster's members, order
\* and labels, nor the position of a non-active player at an index below
\* HUMAN_PLAYERS; only shoot changes activePlayer.
C12_MoveFrame ==
  /\ last.op = "move" =>
       /\ activePlayer = preActive
       /\ Len(players) = Len(pre.players)
       /\ \A n \in Indices(players) :
            /\ At(players, n).label = At(pre.players, n).label
            /\ At(players, n).gif = At(pre.players, n).gif
            /\ (n # preActive /\ n < HUMAN_PLAYERS) =>
                 At(players, n).position = At(pre.players, n).position
  /\ activePlayer # preActive => last.op = "shoot"

\* a move has moved a computer-controlled player while two other
\* human-controlled players stood by
C12_Witness ==
  /\ ranMove
  /\ landing.row # 0
  /\ preActive = 1
  /\ Len(players) > HUMAN_PLAYERS
  /\ At(players, HUMAN_PLAYERS).position # At(pre.players, HUMAN_PLAYERS).position

\* the rows a computer-controlled player at row r can be moved to
StepRows(r) == {Max(0, r - 1), Max(0, r - 2)}
\* the last move did not end the game
movedOn == ranMove /\ landing.row # 0
\* a move by rowMove that brings the player at index n to row r
MoveBringsTo(rowMove, n, r) ==
  Move(rowMove) /\ At(players', n).position.row = r

\* C13: a move that does not end the game reduces the row of every non-active
\* player at an index >= HUMAN_PLAYERS by 1 or by 2, clamped at 0, and keeps
\* its column; both steps can be drawn.
C13_OthersStep ==
  /\ movedOn =>
       \A n \in Indices(players) :
         (n # preActive /\ n >= HUMAN_PLAYERS) =>
           /\ At(players, n).position.row \in StepRows(At(pre.players, n).position.row)
           /\ At(players, n).position.col = At(pre.players, n).position.col
  /\ (/\ winner = NoWinner
      /\ ValidIndex(players, activePlayer)
      /\ At(players, activePlayer).position.row > 1) =>
       \A n \in Indices(players) :
         (n # activePlayer /\ n >= HUMAN_PLAYERS) =>
           \A r \in StepRows(At(players, n).position.row) :
             ENABLED MoveBringsTo(1, n, r)

\* a computer-controlled player has run two rows
C13_Witness ==
  /\ movedOn
  /\ \E n \in Indices(players) :
       /\ n # preActive
       /\ n >= HUMAN_PLAYERS
       /\ At(players, n).position.row = At(pre.players, n).position.row - 2

InGrid(x) == x \in 0 .. (gridSize - 1)

\* C14: every player and every power-up is on a cell of the grid, and no two
\* power-ups have the same coordinates.
C14_InGrid ==
  /\ \A n \in Indices(players) :
       InGrid(At(players, n).position.row) /\ InGrid(At(players, n).position.col)
  /\ \A n \in Indices(powerUps) :
       InGrid(At(powerUps, n).row) /\ InGrid(At(powerUps, n).col)
  /\ \A n, m \in Indices(powerUps) : At(powerUps, n) = At(powerUps, m) => n = m

\* a computer-controlled player one row from the top has been moved to row 0
\* while a power-up was still on the board
C14_Witness ==
  /\ movedOn
  /\ powerUps # <<>>
  /\ \E n \in Indices(players) :
       /\ n # preActive
       /\ n >= HUMAN_PLAYERS
       /\ At(pre.players, n).position.row = 1
       /\ At(players, n).position.row = 0

\* C15: for any integer rowDelta, negative and large ones included, move
\* leaves the active player's row and column within [0, gridSize-1].
C15_MoveStaysInGrid ==
  last.op = "move" =>
    /\ InGrid(At(players, activePlayer).position.row)
    /\ InGrid(At(players, activePlayer).position.col)

\* C16: an initial state has NUM_PLAYERS players on row gridSize-1 with
\* distinct columns and the labels 1..NUM_PLAYERS, NUM_POWERUPS power-ups on
\* row floor(gridSize/2) with distinct columns, activePlayer below
\* HUMAN_PLAYERS, no winner and hasPowerUp false.
C16_InitialState ==
  last.op = "init" =>
    /\ Len(players) = NUM_PLAYERS
    /\ \A n \in Indices(players) : At(players, n).position.row = gridSize - 1
    /\ Cardinality({At(players, n).position.col : n \in Indices(players)}) = NUM_PLAYERS
    /\ {At(players, n).label : n \in Indices(players)} = 1 .. NUM_PLAYERS
    /\ Len(powerUps) = NUM_POWERUPS
    /\ \A n \in Indices(powerUps) : At(powerUps, n).row = gridSize \div 2
    /\ Cardinality({At(powerUps, n).col : n \in Indices(powerUps)}) = NUM_POWERUPS
    /\ activePlayer \in 0 .. (HUMAN_PLAYERS - 1)
    /\ winner = NoWinner
    /\ ~hasPowerUp

\* an initial state with shuffled labels and columns and the last
\* human-controlled player active
C16_Witness ==
  /\ last.op = "init"
  /\ activePlayer = HUMAN_PLAYERS - 1
  /\ At(players, 0).label # 1
  /\ At(players, 0).position.col # 0

\* C17: when move keeps being clicked while there is no winner, a winner is
\* eventually set.
C17_GameEnds == <>(winner # NoWinner)

\* the game has ended after an elimination that changed the active player
C17_Witness ==
  /\ winner # NoWinner
  /\ Len(players) < NUM_PLAYERS
  /\ At(players, activePlayer).label = winner
  /\ At(players, activePlayer).gif # 1
  /\ activePlayer = 0

\* C18: every move that does not end the game moves forward every roster
\* player that started at an index >= HUMAN_PLAYERS and is above row 0.
C18_ComputerPlayersKeepMoving ==
  movedOn =>
    \A n \in Indices(players) :
      (At(pre.players, n).gif > HUMAN_PLAYERS /\ At(pre.players, n).position.row > 0) =>
        At(players, n).position.row < At(pre.players, n).position.row

\* C19: the roster players have pairwise distinct columns.
C19_DistinctColumns ==
  \A n, m \in Indices(players) :
    At(players, n).position.col = At(players, m).position.col => n = m

\* two players stand on the same row above the start row
C19_Witness ==
  \E n, m \in Indices(players) :
    /\ n # m
    /\ At(players, n).position.row = At(players, m).position.row
    /\ At(players, n).position.row < gridSize - 1

\* C20: a move made while hasPowerUp is true picks up no power-up: while
\* hasPowerUp is true no remaining power-up is in the active player's column
\* at a row it can still land on.
C20_NoWastedPowerUp ==
  /\ (ranMove /\ pre.hasPowerUp) => powerUps = pre.powerUps
  /\ (hasPowerUp /\ ValidIndex(players, activePlayer)) =>
       \A n \in Indices(powerUps) :
         ~(/\ At(powerUps, n).col = At(players, activePlayer).position.col
           /\ At(powerUps, n).row < At(players, activePlayer).position.row
           /\ At(powerUps, n).row > 0)

\* a move has been made while a power-up was held and power-ups were left
C20_Witness ==
  /\ movedOn
  /\ pre.hasPowerUp
  /\ hasPowerUp
  /\ powerUps # <<>>

====
